---- MODULE Spec2Model ----
(***************************************************************************)
(* A model of the pattern printer's core (crate ipp) and of its callers:   *)
(*   - the row builder (segmentation of a raster image into rows of cells  *)
(*     by flood fill, suspended on every unregistered colour) together     *)
(*     with the loop of the terminal front end that drives it, and called  *)
(*     on its own;                                                         *)
(*   - flood_fill as a function of its own;                                *)
(*   - the pattern walker (App): construction, tick, reset, is_done,       *)
(*     called on their own;                                                *)
(*   - the two front ends from the image to the walker: main and run_app   *)
(*     of the terminal front end, the callbacks of the web front end.      *)
(* Colours are numbered: 0 stands for SEPARATOR_COLOR (32,32,32), 1..n for *)
(* n other, pairwise different RGB values (colours are only ever compared  *)
(* for equality).  Coordinates, rows and columns are 0-based as in the     *)
(* code; TLA+ sequences are 1-based, so row r of a Vec is element r + 1.   *)
(***************************************************************************)
EXTENDS Integers, Sequences, FiniteSets, TLC

VARIABLES
    input,      \* the decoded image handed to build_rows / RowBuilder::new (in
                \* the web front end: the image of the file APP was made from)
    color_map,  \* ColorMap: [full_names, short_char], two maps keyed by colour
    builder,    \* RowBuilder: [img, rows, current_row, x, y]
    state,      \* the BuildState last returned (tag "Start" before the first build)
    prompted,   \* the colours the RowBuilder in use has reported by NewColor,
                \* in order (the lines "Found new color" of the terminal front
                \* end, the colours ColorPrompt was shown for since the file
                \* was loaded)
    fill,       \* a direct call of flood_fill: [at, done, visited, calls]
    app,        \* App: [lines, rows, current_pixel, next_pixel,
                \*       ensure_current_on_screen, progress]
    phase,      \* where the program is.  Terminal front end: "segmenting"
                \* in build_rows, "run_app" in the loop of run_app, "quit"
                \* after the key 'q'.  Web front end, the variant of AppState:
                \* "Uninitialized", "Initializing", "Running".  The walker
                \* on its own: "ready" before App::new, then "running"; a
                \* lone call of is_done: "asked", then "done" or "not_done".
                \* The row builder on its own: "building", then "rebuilt"
                \* after a build that follows Complete.
                \* "fill", "registry", "hex": flood_fill, the registry,
                \* to_hex on their own.  "panicked" after a panic, "failed"
                \* after main has returned an Err
    config,     \* the configuration as saved (the file of the terminal front
                \* end, the entry of local storage of the web front end; the
                \* default configuration when nothing is saved), which is
                \* what Config::load returns: [color_map, progress, hex_size].
                \* hex_size is a field of the web front end only.  For the
                \* walker on its own, config.progress is the cursor handed to
                \* App::new
    call,       \* a call of ColorMap::full_name, ColorMap::one_char or
                \* Rgb8::to_hex on its own: [op, arg, outcome, ret]
    hex_size    \* config.hex_size of the web front end, in memory

vars ==
    <<input, color_map, builder, state, prompted, fill, app, phase, config, call,
      hex_size>>

-----------------------------------------------------------------------------
(* Bounds of the model *)

\* image width in pixels
Width == 3
\* image height in pixels
Height == 2
\* number of colours other than the separator
NumColors == 2
\* at most this many pixels of an input image are not separator pixels
MaxPaint == 3

SEPARATOR_COLOR == 0

Colors == 1..NumColors
Pixels == (0..(Width - 1)) \X (0..(Height - 1))

\* the sets of pixels an input image may have painted: at most MaxPaint pixels
PaintSets == { T \in SUBSET Pixels : Cardinality(T) <= MaxPaint }
\* raster order: top to bottom, then left to right
Before(p, q) == p[2] < q[2] \/ (p[2] = q[2] /\ p[1] < q[1])
\* the colours of f are numbered in the order in which a raster scan meets them
\* (colours are only compared for equality, so every other colouring is one of
\* these with its colours renamed)
InOrderOfAppearance(S, f) ==
    \A p \in S :
        \/ f[p] = 1
        \/ \E q \in S : Before(q, p) /\ (f[q] = f[p] \/ f[q] = f[p] - 1)
\* the image of Width x Height pixels painted on S with the colours f
Image(S, f) == [p \in Pixels |-> IF p \in S THEN f[p] ELSE SEPARATOR_COLOR]

\* A String is the sequence of its chars.  A char is a string: the character
\* itself when it is printable ASCII, an escape for tab, line feed, form feed
\* and carriage return, and its code point, written U+XXXX, for any other.
\* ColorEntry values handed to continue_build, and the one a saved configuration
\* holds
Red == [full_name |-> <<"R", "e", "d">>, one_char |-> <<"R">>]
Blue == [full_name |-> <<"B", "l", "u", "e">>, one_char |-> <<"B">>]
UserEntries == {Red, Blue}
SavedEntry == [full_name |-> <<"S", "a", "v", "e", "d">>, one_char |-> <<"S">>]

-----------------------------------------------------------------------------
(* Rgb8::to_hex.  Here a colour is its three channels <<r, g, b>>, each a u8. *)

\* the char with the given ASCII code, for the digits and the capital letters
chr(code) ==
    IF code \in 48..57
    THEN <<"0", "1", "2", "3", "4", "5", "6", "7", "8", "9">>[code - 47]
    ELSE <<"A", "B", "C", "D", "E", "F", "G", "H", "I", "J", "K", "L", "M",
           "N", "O", "P", "Q", "R", "S", "T", "U", "V", "W", "X", "Y", "Z">>[code - 64]

\* ('0' as u8 + num) as char below 10, else ('A' as u8 + (num - 10)) as char
num_to_hex(num) ==
    IF num < 10 THEN chr(48 + num) ELSE chr(65 + (num - 10))

\* to_hex, were the low nibble of a channel written first
to_hex_low_first(rgb) ==
    << "#", num_to_hex(rgb[1] % 16), num_to_hex(rgb[1] \div 16),
            num_to_hex(rgb[2] % 16), num_to_hex(rgb[2] \div 16),
            num_to_hex(rgb[3] % 16), num_to_hex(rgb[3] \div 16) >>

\* format!("#{}{}{}{}{}{}", r1, r2, g1, g2, b1, b2)
to_hex(rgb) ==
    << "#", num_to_hex(rgb[1] \div 16), num_to_hex(rgb[1] % 16),
            num_to_hex(rgb[2] \div 16), num_to_hex(rgb[2] % 16),
            num_to_hex(rgb[3] \div 16), num_to_hex(rgb[3] % 16) >>

-----------------------------------------------------------------------------
(* ColorMap *)

Put(f, k, v) == [z \in (DOMAIN f) \cup {k} |-> IF z = k THEN v ELSE f[z]]

ColorMapNew == [full_names |-> << >>, short_char |-> << >>]

\* has, were it to answer no for every colour
has_never(cm, color) == FALSE

\* has, were it to answer yes for every colour
has_always(cm, color) == TRUE

has(cm, color) == color \in DOMAIN cm.full_names

\* add_entry, were it to record the abbreviation only
add_entry_char_only(cm, color, entry) ==
    [full_names |-> cm.full_names,
     short_char |-> Put(cm.short_char, color, entry.one_char)]

\* add_entry, were it to record the full name only
add_entry_name_only(cm, color, entry) ==
    [full_names |-> Put(cm.full_names, color, entry.full_name),
     short_char |-> cm.short_char]

add_entry(cm, color, entry) ==
    [full_names |-> Put(cm.full_names, color, entry.full_name),
     short_char |-> Put(cm.short_char, color, entry.one_char)]

\* how a call ends: with the value returned, or with a panic
Returned(v) == [outcome |-> "returned", ret |-> v]
Panicked == [outcome |-> "panicked", ret |-> << >>]

\* &self.full_names[&color]: Index on a HashMap panics when the key is missing
full_name(cm, color) ==
    IF color \in DOMAIN cm.full_names THEN Returned(cm.full_names[color])
    ELSE Panicked

\* &self.short_char[&color]
one_char(cm, color) ==
    IF color \in DOMAIN cm.short_char THEN Returned(cm.short_char[color])
    ELSE Panicked

\* a registry restored from a saved configuration that knows the colours K
SavedColorMap(K) ==
    [full_names |-> [c \in K |-> SavedEntry.full_name],
     short_char |-> [c \in K |-> SavedEntry.one_char]]

-----------------------------------------------------------------------------
(* flood_fill *)

\* img.width() and img.height(): an image is a function on the pixels (x, y)
\* with 0 <= x < width and 0 <= y < height
width(img) == Cardinality({ p[1] : p \in DOMAIN img })
height(img) == Cardinality({ p[2] : p \in DOMAIN img })

\* flood_fill, were nothing repainted
flood_fill_nothing(img, p) == img

RECURSIVE flood_fill(_, _)
flood_fill(img, p) ==
    IF img[p] = SEPARATOR_COLOR THEN img
    ELSE LET i0 == [img EXCEPT ![p] = SEPARATOR_COLOR]
             i1 == IF p[1] > 0 THEN flood_fill(i0, <<p[1] - 1, p[2]>>) ELSE i0
             i2 == IF p[2] > 0 THEN flood_fill(i1, <<p[1], p[2] - 1>>) ELSE i1
             i3 == IF p[1] + 1 < width(img) THEN flood_fill(i2, <<p[1] + 1, p[2]>>) ELSE i2
             i4 == IF p[2] + 1 < height(img) THEN flood_fill(i3, <<p[1], p[2] + 1>>) ELSE i3
         IN  i4

\* flood_fill, were the right neighbour visited without the test against width
RECURSIVE flood_fill_visit_no_right_check(_, _)
flood_fill_visit_no_right_check(acc, p) ==
    LET seen == [acc EXCEPT !.visited = @ \cup {p}, !.calls = @ + 1]
    IN  IF p \notin DOMAIN acc.img THEN seen
        ELSE IF acc.img[p] = SEPARATOR_COLOR THEN seen
        ELSE LET a0 == [seen EXCEPT !.img[p] = SEPARATOR_COLOR]
                 a1 == IF p[1] > 0
                       THEN flood_fill_visit_no_right_check(a0, <<p[1] - 1, p[2]>>)
                       ELSE a0
                 a2 == IF p[2] > 0
                       THEN flood_fill_visit_no_right_check(a1, <<p[1], p[2] - 1>>)
                       ELSE a1
                 a3 == flood_fill_visit_no_right_check(a2, <<p[1] + 1, p[2]>>)
                 a4 == IF p[2] + 1 < height(acc.img)
                       THEN flood_fill_visit_no_right_check(a3, <<p[1], p[2] + 1>>)
                       ELSE a3
             IN  a4

\* flood_fill together with the coordinates it indexes the image at and the
\* number of its calls: acc is [img, visited, calls].  img[(x, y)] on a
\* coordinate outside the image panics; the coordinate is recorded all the same
RECURSIVE flood_fill_visit(_, _)
flood_fill_visit(acc, p) ==
    LET seen == [acc EXCEPT !.visited = @ \cup {p}, !.calls = @ + 1]
    IN  IF p \notin DOMAIN acc.img THEN seen
        ELSE IF acc.img[p] = SEPARATOR_COLOR THEN seen
        ELSE LET a0 == [seen EXCEPT !.img[p] = SEPARATOR_COLOR]
                 a1 == IF p[1] > 0
                       THEN flood_fill_visit(a0, <<p[1] - 1, p[2]>>) ELSE a0
                 a2 == IF p[2] > 0
                       THEN flood_fill_visit(a1, <<p[1], p[2] - 1>>) ELSE a1
                 a3 == IF p[1] + 1 < width(acc.img)
                       THEN flood_fill_visit(a2, <<p[1] + 1, p[2]>>) ELSE a2
                 a4 == IF p[2] + 1 < height(acc.img)
                       THEN flood_fill_visit(a3, <<p[1], p[2] + 1>>) ELSE a3
             IN  a4

-----------------------------------------------------------------------------
(* RowBuilder *)

RowBuilderNew(image) ==
    [img |-> image, rows |-> << >>, current_row |-> << >>, x |-> 0, y |-> 0]

Complete(rows) == [tag |-> "Complete", rows |-> rows]
NewColor(color) == [tag |-> "NewColor", color |-> color]

\* the end of a scan line, were the row pushed without the emptiness test
EndOfRow_push_always(b) ==
    [b EXCEPT !.rows = Append(b.rows, b.current_row),
              !.current_row = << >>,
              !.x = 0]

\* the end of a scan line, were self.x not set back to 0
EndOfRow_keep_x(b) ==
    [b EXCEPT !.rows = IF b.current_row # << >> THEN Append(b.rows, b.current_row)
                       ELSE b.rows,
              !.current_row = << >>]

\* the end of the scan line y: lines 40-44 of build
EndOfRow(b) ==
    [b EXCEPT !.rows = IF b.current_row # << >> THEN Append(b.rows, b.current_row)
                       ELSE b.rows,
              !.current_row = << >>,
              !.x = 0]

\* build, were the pixel pushed before the registry is asked
RECURSIVE build_from_push_first(_, _, _, _)
build_from_push_first(b, cm, x, y) ==
    IF y >= height(b.img) THEN [b |-> b, result |-> Complete(b.rows)]
    ELSE IF x >= width(b.img)
         THEN LET e == EndOfRow(b) IN build_from_push_first(e, cm, e.x, y + 1)
    ELSE LET at == [b EXCEPT !.x = x, !.y = y]
             pixel == b.img[<<x, y>>]
             pushed == [at EXCEPT !.current_row = Append(b.current_row, pixel)]
         IN  IF pixel = SEPARATOR_COLOR THEN build_from_push_first(at, cm, x + 1, y)
             ELSE IF ~has(cm, pixel) THEN [b |-> pushed, result |-> NewColor(pixel)]
             ELSE build_from_push_first(
                    [pushed EXCEPT !.img = flood_fill(b.img, <<x, y>>)], cm, x + 1, y)

\* build, were separator pixels not skipped
RECURSIVE build_from_no_skip(_, _, _, _)
build_from_no_skip(b, cm, x, y) ==
    IF y >= height(b.img) THEN [b |-> b, result |-> Complete(b.rows)]
    ELSE IF x >= width(b.img)
         THEN LET e == EndOfRow(b) IN build_from_no_skip(e, cm, e.x, y + 1)
    ELSE LET at == [b EXCEPT !.x = x, !.y = y]
             pixel == b.img[<<x, y>>]
         IN  IF ~has(cm, pixel) THEN [b |-> at, result |-> NewColor(pixel)]
             ELSE build_from_no_skip(
                    [at EXCEPT !.current_row = Append(b.current_row, pixel),
                               !.img = flood_fill(b.img, <<x, y>>)],
                    cm, x + 1, y)

\* the two loops of build, about to look at pixel (x, y) of scan line y
RECURSIVE build_from(_, _, _, _)
build_from(b, cm, x, y) ==
    IF y >= height(b.img) THEN [b |-> b, result |-> Complete(b.rows)]
    ELSE IF x >= width(b.img) THEN LET e == EndOfRow(b) IN build_from(e, cm, e.x, y + 1)
    ELSE LET at == [b EXCEPT !.x = x, !.y = y]
             pixel == b.img[<<x, y>>]
         IN  IF pixel = SEPARATOR_COLOR THEN build_from(at, cm, x + 1, y)
             ELSE IF ~has(cm, pixel) THEN [b |-> at, result |-> NewColor(pixel)]
             ELSE build_from(
                    [at EXCEPT !.current_row = Append(b.current_row, pixel),
                               !.img = flood_fill(b.img, <<x, y>>)],
                    cm, x + 1, y)

build(b, cm) == build_from(b, cm, b.x, b.y)

\* continue_build, were the scan resumed one pixel after the remembered one
continue_build_skip(b, entry, cm) ==
    LET initial_pixel == b.img[<<b.x, b.y>>]
        cm2 == add_entry(cm, initial_pixel, entry)
        r == build_from(b, cm2, b.x + 1, b.y)
    IN  [b |-> r.b, cm |-> cm2, result |-> r.result]

\* continue_build, were the entry not recorded
continue_build_forget(b, entry, cm) ==
    LET r == build(b, cm)
    IN  [b |-> r.b, cm |-> cm, result |-> r.result]

continue_build(b, entry, cm) ==
    LET initial_pixel == b.img[<<b.x, b.y>>]
        cm2 == add_entry(cm, initial_pixel, entry)
        r == build(b, cm2)
    IN  [b |-> r.b, cm |-> cm2, result |-> r.result]

-----------------------------------------------------------------------------
(* The segmentation loop of the terminal front end (build_rows) *)

\* the colours reported so far, with the one of a NewColor result added
Announce(result) ==
    IF result.tag = "NewColor" THEN Append(prompted, result.color) ELSE prompted

\* the head of a turn of the loop, lines 48-55, on the result of build or of
\* continue_build: Complete is returned; NewColor is announced by
\* println!("Found new color: ..."), which panics when stdout cannot be
\* written, and then nothing was announced
Announced(result) ==
    \/ /\ prompted' = Announce(result)
       /\ phase' = phase
    \/ /\ result.tag = "NewColor"
       /\ prompted' = prompted
       /\ phase' = "panicked"

\* RowBuilder::new(img) and builder.build(color_map), lines 46-47, then the head
\* of the first turn of the loop
BuildRows ==
    /\ phase = "segmenting"
    /\ state.tag = "Start"
    /\ LET r == build(builder, color_map)
       IN  /\ builder' = r.b
           /\ state' = r.result
           /\ Announced(r.result)
    /\ UNCHANGED <<input, color_map, fill, app, config, call, hex_size>>

\* what read_line leaves in its buffer for the two prompts of one colour: the
\* line typed with its terminator, or nothing at the end of the input
StdinAnswers ==
    { [full_name |-> <<"R", "e", "d", "\n">>, one_char |-> <<"R", "\n">>],
      [full_name |-> <<" ", "B", "l", "u", "e", " ", "\n">>,
       one_char |-> <<"B", "l", "\n">>],
      [full_name |-> <<"\f", "R", "e", "d", "U+00A0", "\r", "\n">>,
       one_char |-> <<"U+000B", "R", "U+0085", "\n">>],
      [full_name |-> <<"U+2003", "B", "l", "u", "e", "U+3000", "\n">>,
       one_char |-> <<"U+2028", "\t", "B", "\n">>],
      [full_name |-> <<"R", "e", "d", "\n">>, one_char |-> <<"\n">>],
      [full_name |-> <<"R", "e", "d", "\n">>, one_char |-> <<" ", " ", " ", "\n">>],
      [full_name |-> <<"R", "e", "d", "\n">>,
       one_char |-> <<"U+00A0", "\f", "U+1680", "\n">>],
      [full_name |-> << >>, one_char |-> << >>] }

\* char::is_whitespace: the chars with the Unicode property White_Space, which
\* are U+0009..U+000D (tab, line feed, U+000B, form feed, carriage return),
\* the space, U+0085, U+00A0, U+1680, U+2000..U+200A, U+2028, U+2029, U+202F,
\* U+205F and U+3000
is_whitespace(ch) ==
    ch \in {"\t", "\n", "U+000B", "\f", "\r", " ", "U+0085", "U+00A0",
            "U+1680", "U+2000", "U+2001", "U+2002", "U+2003", "U+2004",
            "U+2005", "U+2006", "U+2007", "U+2008", "U+2009", "U+200A",
            "U+2028", "U+2029", "U+202F", "U+205F", "U+3000"}

\* str::trim: the string without its leading and trailing whitespace
RECURSIVE trim_start(_)
trim_start(str) ==
    IF str # << >> /\ is_whitespace(Head(str)) THEN trim_start(Tail(str)) ELSE str
RECURSIVE trim_end(_)
trim_end(str) ==
    IF str # << >> /\ is_whitespace(str[Len(str)])
    THEN trim_end(SubSeq(str, 1, Len(str) - 1)) ELSE str
trim(str) == trim_end(trim_start(str))

\* the rest of the NewColor arm, lines 56-69, and the head of the next turn
\* of the loop: the two prompts, builder.continue_build(entry, color_map), and
\* the announcement of the next colour.  one_char.trim().chars().nth(0) is
\* None on an empty or blank answer and at the end of the input, and unwrap()
\* panics (as does print! when stdout cannot be written); flush()? and
\* read_line()? return an Err from build_rows (a closed stdout, an input that
\* is not UTF-8), and main returns it.  Either way the colour has been
\* announced and nothing else has changed.  When the announcement of the next
\* colour panics, continue_build has registered the colour answered for
AnswerNewColor ==
    /\ phase = "segmenting"
    /\ state.tag = "NewColor"
    /\ \/ \E answer \in StdinAnswers :
            IF trim(answer.one_char) = << >>
            THEN /\ phase' = "panicked"
                 /\ UNCHANGED <<builder, color_map, state, prompted>>
            ELSE LET entry == [full_name |-> trim(answer.full_name),
                               one_char |-> <<trim(answer.one_char)[1]>>]
                     r == continue_build(builder, entry, color_map)
                 IN  /\ builder' = r.b
                     /\ color_map' = r.cm
                     /\ state' = r.result
                     /\ Announced(r.result)
       \/ /\ phase' = "failed"
          /\ UNCHANGED <<builder, color_map, state, prompted>>
    /\ UNCHANGED <<input, fill, app, config, call, hex_size>>

-----------------------------------------------------------------------------
(* The row builder called on its own *)

\* builder.build(color_map), the first call on a new RowBuilder
Build ==
    /\ phase = "building"
    /\ state.tag = "Start"
    /\ LET r == build(builder, color_map)
       IN  /\ builder' = r.b
           /\ state' = r.result
           /\ prompted' = Announce(r.result)
    /\ UNCHANGED <<input, color_map, fill, app, phase, config, call, hex_size>>

\* builder.continue_build(entry, color_map), called with any entry on a builder
\* that has returned NewColor
ContinueBuild ==
    /\ phase = "building"
    /\ state.tag = "NewColor"
    /\ \E entry \in UserEntries :
         LET r == continue_build(builder, entry, color_map)
         IN  /\ builder' = r.b
             /\ color_map' = r.cm
             /\ state' = r.result
             /\ prompted' = Announce(r.result)
    /\ UNCHANGED <<input, fill, app, phase, config, call, hex_size>>

\* builder.build(color_map) called once more on a builder that has returned
\* Complete; phase records that the call was made
BuildAgain ==
    /\ phase = "building"
    /\ state.tag = "Complete"
    /\ LET r == build(builder, color_map)
       IN  /\ builder' = r.b
           /\ state' = r.result
           /\ prompted' = Announce(r.result)
    /\ phase' = "rebuilt"
    /\ UNCHANGED <<input, color_map, fill, app, config, call, hex_size>>

-----------------------------------------------------------------------------
(* Progress, NextPreview, App *)

\* the walker's grids have between 1 and MaxRows rows
MaxRows == 4
\* every grid row has between 1 and MaxLen cells
MaxLen == 3

None == << >>
Some(v) == <<v>>
Pixel(o) == [tag |-> "Pixel", v |-> o]
Tri(a, b, c) == [tag |-> "Tri", v |-> <<a, b, c>>]

Min(a, b) == IF a <= b THEN a ELSE b
Max(a, b) == IF a >= b THEN a ELSE b

\* slice.get(i) on a Vec, i a usize (never negative)
get(s, i) == IF i < Len(s) THEN Some(s[i + 1]) ELSE None
\* iter().take(n).cloned().collect()
take(s, n) == SubSeq(s, 1, Min(n, Len(s)))
\* vec[i] on a Vec of Vecs; the caller has checked i < len
row_at(rows, i) == rows[i + 1]

ProgressNew == [row |-> 2, col |-> 1]

\* the hex_size of a configuration of the web front end that was never saved
HexSizeDefault == 50
\* what Config::load returns when nothing is saved
ConfigNew ==
    [color_map |-> ColorMapNew, progress |-> ProgressNew,
     hex_size |-> HexSizeDefault]

NoApp ==
    [lines |-> << >>, rows |-> << >>, current_pixel |-> Pixel(None),
     next_pixel |-> Pixel(None), ensure_current_on_screen |-> FALSE,
     progress |-> [row |-> 0, col |-> 0]]

\* whether initialize_lines indexes rows within range
initialize_lines_ok(rows, progress) ==
    IF progress.row < 3 THEN Len(rows) >= 3 ELSE progress.row - 1 < Len(rows)

initialize_lines(rows, progress) ==
    IF progress.row < 3
    THEN << take(row_at(rows, 0), progress.col + 1),
            take(row_at(rows, 1), progress.col),
            take(row_at(rows, 2), progress.col + 1) >>
    ELSE Append(take(rows, progress.row),
                take(row_at(rows, progress.row - 1), progress.col + 1))

\* the preview rule, were the three slots of the triple read at one column
next_preview_same_col(rows, progress) ==
    IF progress.row >= 3
    THEN Pixel(get(row_at(rows, progress.row), progress.col))
    ELSE Tri(get(row_at(rows, 0), progress.col),
             get(row_at(rows, 1), progress.col),
             get(row_at(rows, 2), progress.col))

\* the preview rule shared by App::new and tick
next_preview(rows, progress) ==
    IF progress.row >= 3
    THEN Pixel(get(row_at(rows, progress.row), progress.col))
    ELSE Tri(get(row_at(rows, 0), progress.col + 1),
             get(row_at(rows, 1), progress.col),
             get(row_at(rows, 2), progress.col + 1))

\* progress.col - 1 on a usize: with col = 0 it wraps to usize::MAX when overflow
\* checks are off (get then finds nothing); with checks on, App::new panics instead
current_preview(rows, progress) ==
    IF progress.row >= 3
    THEN Pixel(IF progress.col = 0 THEN None
               ELSE get(row_at(rows, progress.row), progress.col - 1))
    ELSE Tri(get(row_at(rows, 0), progress.col),
             IF progress.col = 0 THEN None
             ELSE get(row_at(rows, 1), progress.col - 1),
             get(row_at(rows, 2), progress.col))

\* whether App::new(rows, progress) returns; overflow_checks is the build profile
new_ok(rows, progress, overflow_checks) ==
    /\ initialize_lines_ok(rows, progress)
    /\ progress.row >= 3 => progress.row < Len(rows)
    /\ overflow_checks => progress.col > 0

new(rows, progress) ==
    [lines |-> initialize_lines(rows, progress),
     rows |-> rows,
     current_pixel |-> current_preview(rows, progress),
     next_pixel |-> next_preview(rows, progress),
     ensure_current_on_screen |-> FALSE,
     progress |-> progress]

\* is_done_with_line, were the comparisons strict
is_done_with_line_strict(a) ==
    IF a.progress.row < 3
    THEN a.progress.col >
           Max(Max(Len(row_at(a.rows, 0)), Len(row_at(a.rows, 1))),
               Len(row_at(a.rows, 2)))
    ELSE a.progress.col > Len(row_at(a.rows, a.progress.row))

is_done_with_line(a) ==
    IF a.progress.row < 3
    THEN a.progress.col >=
           Max(Max(Len(row_at(a.rows, 0)), Len(row_at(a.rows, 1))),
               Len(row_at(a.rows, 2)))
    ELSE a.progress.col >= Len(row_at(a.rows, a.progress.row))

\* is_done, were the column compared strictly
is_done_col_strict(a) ==
    /\ Len(a.rows) > 0
    /\ a.progress.row >= Len(a.rows) - 1
    /\ Len(a.rows[Len(a.rows)]) > 0
    /\ a.progress.col > Len(a.rows[Len(a.rows)]) - 1

\* whether is_done returns: rows.len() - 1 and r.len() - 1 are usize
\* subtractions, and 0 - 1 panics in a build with overflow checks; && does not
\* evaluate its right operand when the left one is false
is_done_ok(a, overflow_checks) ==
    overflow_checks =>
        /\ Len(a.rows) > 0
        /\ a.progress.row >= Len(a.rows) - 1 => Len(a.rows[Len(a.rows)]) > 0

\* the value is_done returns; without overflow checks 0 - 1 wraps to usize::MAX,
\* which no cursor of the model reaches, so the comparison against it is false
\* (on an empty grid the left operand is the one that wraps, and the
\* unwrap_or(1) of the right operand is never evaluated)
is_done(a) ==
    /\ Len(a.rows) > 0
    /\ a.progress.row >= Len(a.rows) - 1
    /\ Len(a.rows[Len(a.rows)]) > 0
    /\ a.progress.col >= Len(a.rows[Len(a.rows)]) - 1

\* no cell pushed
grow_never(lines, rows, i) == lines

\* the first cell of the row pushed again
grow_first_cell(lines, rows, i) ==
    IF Len(lines[i + 1]) < Len(row_at(rows, i))
    THEN [lines EXCEPT ![i + 1] = Append(@, row_at(rows, i)[1])]
    ELSE lines

\* lines[i].push(rows[i][lines[i].len()]) when that cell exists
grow(lines, rows, i) ==
    IF Len(lines[i + 1]) < Len(row_at(rows, i))
    THEN [lines EXCEPT ![i + 1] = Append(@, row_at(rows, i)[Len(@) + 1])]
    ELSE lines

\* the column step, were the column left alone
tick_step_keep_col(a) ==
    [a EXCEPT !.ensure_current_on_screen = TRUE,
              !.current_pixel = a.next_pixel]

\* the column step, were the flag left alone
tick_step_no_flag(a) ==
    [a EXCEPT !.progress.col = a.progress.col + 1,
              !.current_pixel = a.next_pixel]

\* the column step without the promotion
tick_step_no_promotion(a) ==
    [a EXCEPT !.ensure_current_on_screen = TRUE,
              !.progress.col = a.progress.col + 1]

\* tick, lines 192-194: the column step and the promotion of next_pixel
tick_step(a) ==
    [a EXCEPT !.ensure_current_on_screen = TRUE,
              !.progress.col = a.progress.col + 1,
              !.current_pixel = a.next_pixel]

\* the change of row, were progress.row not incremented
tick_row_stay(a) ==
    IF is_done_with_line(a)
    THEN [a EXCEPT !.progress = [row |-> a.progress.row, col |-> 0],
                   !.lines = Append(a.lines, << >>),
                   !.current_pixel =
                       Pixel(IF a.progress.row < Len(a.rows)
                             THEN get(row_at(a.rows, a.progress.row), 0)
                             ELSE None)]
    ELSE a

\* tick, lines 195-200: the change of row
tick_row(a) ==
    IF is_done_with_line(a)
    THEN [a EXCEPT !.progress = [row |-> a.progress.row + 1, col |-> 0],
                   !.lines = Append(a.lines, << >>),
                   !.current_pixel =
                       Pixel(IF a.progress.row + 1 < Len(a.rows)
                             THEN get(row_at(a.rows, a.progress.row + 1), 0)
                             ELSE None)]
    ELSE a

\* tick, lines 201-221, reached only when their indexing is in range
tick_reveal(a) ==
    LET l == IF a.progress.row < 3
             THEN grow(grow(grow(a.lines, a.rows, 0), a.rows, 1), a.rows, 2)
             ELSE [a.lines EXCEPT ![Len(a.lines)] =
                       IF Len(@) < Len(row_at(a.rows, a.progress.row))
                       THEN Append(@, row_at(a.rows, a.progress.row)[Len(@) + 1])
                       ELSE @]
    IN  [a EXCEPT !.lines = l, !.next_pixel = next_preview(a.rows, a.progress)]

\* whether rows[progress.row] (lines 207 and 214) is in range after the row change
tick_ok(a) == LET b == tick_row(tick_step(a)) IN b.progress.row < Len(b.rows)

\* the App a call of tick leaves behind; when rows[progress.row] panics, the
\* assignments made before the panic stay
tick(a) ==
    LET b == tick_row(tick_step(a))
    IN  IF b.progress.row < Len(b.rows) THEN tick_reveal(b) ELSE b

\* reset, were the grid cut down to the lines revealed at the start cursor
reset_cut_rows(a) ==
    [a EXCEPT !.progress = ProgressNew,
              !.lines = initialize_lines(a.rows, ProgressNew),
              !.rows = initialize_lines(a.rows, ProgressNew)]

\* reset, were lines left as they are
reset_keep_lines(a) ==
    [a EXCEPT !.progress = ProgressNew]

\* reset: progress.reset() and lines = initialize_lines(rows, progress); the two
\* previews are not assigned
reset(a) ==
    [a EXCEPT !.progress = ProgressNew,
              !.lines = initialize_lines(a.rows, ProgressNew)]

\* the space key of the terminal front end: if !app.is_done() { app.tick() }
space(a) == IF ~is_done(a) THEN tick(a) ELSE a

\* the walker after n turns of a caller that calls tick only when is_done() is
\* false, and nothing else in between
RECURSIVE steps(_, _)
steps(a, n) == IF n = 0 \/ is_done(a) THEN a ELSE steps(tick(a), n - 1)

-----------------------------------------------------------------------------
(* The operations of the walker, called on their own *)

\* the cursors a Progress may hold
Cursors == [row : 0..MaxRows, col : 0..MaxLen]

\* App::new(rows, progress), in a build with or without overflow checks; state
\* holds the grid and config the cursor handed over
New ==
    /\ phase = "ready"
    /\ state.tag = "Complete"
    /\ \E overflow_checks \in BOOLEAN :
         IF new_ok(state.rows, config.progress, overflow_checks)
         THEN app' = new(state.rows, config.progress) /\ phase' = "running"
         ELSE app' = app /\ phase' = "panicked"
    /\ UNCHANGED <<input, color_map, builder, state, prompted, fill, config, call,
                   hex_size>>

\* app.tick(), whatever is_done() says
Tick ==
    /\ phase = "running"
    /\ app' = tick(app)
    /\ phase' = IF tick_ok(app) THEN "running" ELSE "panicked"
    /\ UNCHANGED <<input, color_map, builder, state, prompted, fill, config, call,
                   hex_size>>

\* app.tick() by a caller that keeps to its contract: called only when
\* app.is_done() is false
Step ==
    /\ phase = "running"
    /\ ~is_done(app)
    /\ app' = tick(app)
    /\ phase' = IF tick_ok(app) THEN "running" ELSE "panicked"
    /\ UNCHANGED <<input, color_map, builder, state, prompted, fill, config, call,
                   hex_size>>

\* app.reset()
Reset ==
    /\ phase = "running"
    /\ app' = reset(app)
    /\ UNCHANGED <<input, color_map, builder, state, prompted, fill, phase,
                   config, call, hex_size>>

\* a call of app.is_done() on its own, in a build with or without overflow
\* checks; phase records how the call ended
IsDone ==
    /\ phase = "asked"
    /\ \E overflow_checks \in BOOLEAN :
         phase' = IF ~is_done_ok(app, overflow_checks) THEN "panicked"
                  ELSE IF is_done(app) THEN "done" ELSE "not_done"
    /\ UNCHANGED <<input, color_map, builder, state, prompted, fill, app,
                   config, call, hex_size>>

-----------------------------------------------------------------------------
(* The terminal front end after build_rows: main and run_app.  The scroll
   amounts of UIState, which the scroll keys set to any value between two
   frames, and the size of the terminal are inputs of every frame drawn. *)

\* the colours a preview shows
preview_colors(p) ==
    IF p.tag = "Pixel" THEN { p.v[i] : i \in DOMAIN p.v }
    ELSE UNION { { p.v[k][i] : i \in DOMAIN p.v[k] } : k \in 1..3 }

\* whether ui returns: color_map.one_char(c) for every cell of lines (line 280)
\* and color_map.full_name(c) for every cell of the two previews (line 320) find
\* the colour
ui_ok(a, cm) ==
    /\ \A i \in DOMAIN a.lines : \A j \in DOMAIN a.lines[i] :
         one_char(cm, a.lines[i][j]).outcome = "returned"
    /\ \A c \in preview_colors(a.current_pixel) \cup preview_colors(a.next_pixel) :
         full_name(cm, c).outcome = "returned"

\* main, lines 133-139, and the head of run_app, lines 181-183: build_rows has
\* returned the grid, the configuration is saved with the registry, the
\* terminal set up, and App::new(rows, config.progress.clone()) called
\* (UIState::new indexes nothing out of range and subtracts nothing below zero
\* on the walker App::new returns, whose lines are three or more).
\* config.save()? may return an Err, which main returns: with the file as it
\* was when ron::to_string or the opening of the file failed, and with the file
\* cut short when fs::write, which truncates the file before it writes, failed
\* later; Config::load reads a file it cannot parse as the configuration that
\* was never saved.  setup_tui()? may return an Err, which main returns after
\* the file was written
RunApp ==
    /\ phase = "segmenting"
    /\ state.tag = "Complete"
    /\ LET saved == [config EXCEPT !.color_map = color_map]
       IN  \/ /\ config' = saved
              /\ \E overflow_checks \in BOOLEAN :
                   IF new_ok(state.rows, config.progress, overflow_checks)
                   THEN app' = new(state.rows, config.progress)
                        /\ phase' = "run_app"
                   ELSE app' = app /\ phase' = "panicked"
           \/ /\ config' \in {config, ConfigNew, saved}
              /\ app' = app
              /\ phase' = "failed"
    /\ UNCHANGED <<input, color_map, builder, state, prompted, fill, call,
                   hex_size>>

\* the sides of image_frame, the area of the pattern, run from 0 to MaxSide
MaxSide == 3
FrameSides == 0..MaxSide
\* the scroll keys have left a scroll amount between 0 and MaxScroll
MaxScroll == 2
ScrollAmounts == 0..MaxScroll

\* ensure_scroll_to_visible on usize arguments, computed in the integers: a
\* negative result is a subtraction that went below zero
ensure_scroll_to_visible(frame_size, content_length, current_scroll) ==
    LET lowest_visible == current_scroll
        highest_visible == frame_size + current_scroll
        overscroll_padding == 2
    IN  IF lowest_visible > content_length THEN content_length - 1
        ELSE IF highest_visible < content_length
        THEN content_length + 1 + overscroll_padding - frame_size
        ELSE current_scroll

\* whether the block of ui that brings the current cell on screen (lines
\* 245-266) returns in a build with overflow checks, where a subtraction on
\* usize that goes below zero panics: frame_size = side - 2 for the two sides
\* of image_frame, content_length the number of lines and twice the length of
\* the last line, current_scroll = scroll amount + 1, and the new scroll
\* amount ensure_scroll_to_visible(..) - 1.  In a build without overflow
\* checks the subtractions wrap and only the scroll amounts are affected
ui_scroll_ok(a, frame_height, frame_width, vertical, horizontal) ==
    LET last_len == IF a.lines = << >> THEN 0 ELSE Len(a.lines[Len(a.lines)])
    IN  /\ frame_height >= 2
        /\ ensure_scroll_to_visible(frame_height - 2, Len(a.lines),
                                    vertical + 1) >= 1
        /\ frame_width >= 2
        /\ ensure_scroll_to_visible(frame_width - 2, last_len * 2,
                                    horizontal + 1) >= 1

\* term.draw(|f| ui(..)) at the head of every turn of the loop.  When
\* ensure_current_on_screen is set ui adjusts the scroll amounts, which panics
\* in a build with overflow checks when a subtraction goes below zero (a
\* terminal too small for the border, a last line without a cell); then ui
\* clears the flag (line 267) and looks the labels up
Draw ==
    /\ phase = "run_app"
    /\ \E overflow_checks \in BOOLEAN,
          frame_height \in FrameSides, frame_width \in FrameSides,
          vertical \in ScrollAmounts, horizontal \in ScrollAmounts :
         IF /\ app.ensure_current_on_screen
            /\ overflow_checks
            /\ ~ui_scroll_ok(app, frame_height, frame_width, vertical, horizontal)
         THEN app' = app /\ phase' = "panicked"
         ELSE /\ app' = [app EXCEPT !.ensure_current_on_screen = FALSE]
              /\ phase' = IF ui_ok(app, color_map) THEN phase ELSE "panicked"
    /\ UNCHANGED <<input, color_map, builder, state, prompted, fill, config, call,
                   hex_size>>

\* term.draw, event::poll or event::read returns an Err: run_app returns it
\* and main returns without writing the cursor
IoError ==
    /\ phase = "run_app"
    /\ phase' = "failed"
    /\ UNCHANGED <<input, color_map, builder, state, prompted, fill, app, config,
                   call, hex_size>>

\* the space key.  A key is read after the frame of the turn was drawn, so the
\* flag is clear when a key handler runs
Space ==
    /\ phase = "run_app"
    /\ ~app.ensure_current_on_screen
    /\ app' = space(app)
    /\ phase' = IF is_done(app) \/ tick_ok(app) THEN phase ELSE "panicked"
    /\ UNCHANGED <<input, color_map, builder, state, prompted, fill, config, call,
                   hex_size>>

\* the key 'r': app.reset()
KeyR ==
    /\ phase = "run_app"
    /\ ~app.ensure_current_on_screen
    /\ app' = reset(app)
    /\ UNCHANGED <<input, color_map, builder, state, prompted, fill, phase,
                   config, call, hex_size>>

\* the number of ticks the key 'P' makes
PageTicks == 30

\* whether n calls of tick in a row all return
RECURSIVE ticks_ok(_, _)
ticks_ok(a, n) == n = 0 \/ (tick_ok(a) /\ ticks_ok(tick(a), n - 1))

\* the walker n calls of tick leave behind, up to the first that panics
RECURSIVE ticks(_, _)
ticks(a, n) ==
    IF n = 0 THEN a
    ELSE IF tick_ok(a) THEN ticks(tick(a), n - 1) ELSE tick(a)

\* the key 'P': for _ in 0..30 { app.tick(); }
KeyP ==
    /\ phase = "run_app"
    /\ ~app.ensure_current_on_screen
    /\ app' = ticks(app, PageTicks)
    /\ phase' = IF ticks_ok(app, PageTicks) THEN phase ELSE "panicked"
    /\ UNCHANGED <<input, color_map, builder, state, prompted, fill, config, call,
                   hex_size>>

\* the key 'q': run_app returns app.progress and main, lines 140-143, writes it
\* and restores the terminal: config.progress = progress; config.save()?;
\* term.show_cursor()?; teardown_tui()?.  When save returns an Err the file
\* is as it was or, fs::write having truncated it, cut short, which
\* Config::load reads as the configuration that was never saved; when
\* show_cursor or teardown_tui returns an Err the file is written and main
\* returns the Err
Quit ==
    /\ phase = "run_app"
    /\ ~app.ensure_current_on_screen
    /\ LET saved == [config EXCEPT !.color_map = color_map,
                                   !.progress = app.progress]
       IN  \/ config' = saved /\ phase' \in {"quit", "failed"}
           \/ config' \in {config, ConfigNew} /\ phase' = "failed"
    /\ UNCHANGED <<input, color_map, builder, state, prompted, fill, app, call,
                   hex_size>>

-----------------------------------------------------------------------------
(* The web front end.  phase is the variant of AppState: "Uninitialized",
   "Initializing" or "Running"; config is the entry of local storage.  After
   a throw or a panic inside APP.with_borrow_mut, which leaves APP borrowed
   for good, phase is "panicked". *)

\* whether the snapshot of the walker is built: rows_to_iarray looks up
\* one_char for every cell of lines and from_ipp full_name for every cell of
\* the two previews
get_view_ok(a, cm) ==
    /\ \A i \in DOMAIN a.lines : \A j \in DOMAIN a.lines[i] :
         one_char(cm, a.lines[i][j]).outcome = "returned"
    /\ \A c \in preview_colors(a.current_pixel) \cup preview_colors(a.next_pixel) :
         full_name(cm, c).outcome = "returned"

\* the Complete arm of initialize_color, with the configuration cfg in memory:
\* cfg.save(), which throws when the storage refuses; App::new(rows,
\* cfg.progress.clone()); the snapshot; AppState::Running(app, cfg).  The arm
\* runs inside APP.with_borrow_mut: a throw or a panic, which does not unwind,
\* leaves APP borrowed, so that every later callback panics at its own borrow
\* of APP before it changes anything
Running(rows, cfg) ==
    \E overflow_checks \in BOOLEAN, saved \in BOOLEAN :
        /\ config' = IF saved THEN cfg ELSE config
        /\ IF /\ saved
              /\ new_ok(rows, cfg.progress, overflow_checks)
              /\ get_view_ok(new(rows, cfg.progress), cfg.color_map)
           THEN app' = new(rows, cfg.progress) /\ phase' = "Running"
           ELSE app' = app /\ phase' = "panicked"

\* the images given to the front ends are columns, one pixel wide and
\* 2 * MaxRows - 1 pixels high, painted on any of their even scan lines, so
\* that grids of up to MaxRows rows of one cell come out of the segmentation
\* (App::new accepts no grid of fewer than three rows, and painted pixels that
\* touch make one cell); the colour changes from one even scan line to the next
ColumnPixels == {0} \X (0..(2 * MaxRows - 2))
CellPixels == { p \in ColumnPixels : p[2] % 2 = 0 }
ColumnColor(y) == 1 + ((y \div 2) % NumColors)
ColumnImage(S) ==
    [p \in ColumnPixels |-> IF p \in S THEN ColumnColor(p[2]) ELSE SEPARATOR_COLOR]
FrontImages == { ColumnImage(S) : S \in SUBSET CellPixels }

\* load_file of the web front end, in any state of the page (a file is dropped,
\* or a button of the landing view is clicked): the image is decoded, a new
\* RowBuilder made, the configuration loaded from local storage, and APP
\* replaced.  The files all bear one name, so there is one entry in local
\* storage.  In the Complete arm config.save() writes back the configuration
\* just read.  load_file works on values of its own up to line 200, where it
\* replaces APP: when it throws or panics before (the data is no image, the
\* storage refuses to be read or written, App::new panics), APP and the page
\* are as they were and the page serves the next event
LoadFile ==
    /\ phase \in {"Uninitialized", "Initializing", "Running"}
    /\ \/ \E img \in FrontImages :
            \E r \in {build(RowBuilderNew(img), config.color_map)} :
                IF r.result.tag = "Complete"
                THEN \E overflow_checks \in BOOLEAN :
                       IF /\ new_ok(r.result.rows, config.progress, overflow_checks)
                          /\ get_view_ok(new(r.result.rows, config.progress),
                                         config.color_map)
                       THEN /\ app' = new(r.result.rows, config.progress)
                            /\ phase' = "Running"
                            /\ input' = img
                            /\ builder' = r.b
                            /\ color_map' = config.color_map
                            /\ state' = r.result
                            /\ prompted' = << >>
                            /\ hex_size' = config.hex_size
                       ELSE UNCHANGED <<input, builder, color_map, state,
                                        prompted, app, phase, hex_size>>
                ELSE /\ app' = NoApp
                     /\ phase' = "Initializing"
                     /\ input' = img
                     /\ builder' = r.b
                     /\ color_map' = config.color_map
                     /\ state' = r.result
                     /\ prompted' = <<r.result.color>>
                     /\ hex_size' = config.hex_size
       \/ UNCHANGED <<input, builder, color_map, state, prompted, app, phase,
                      hex_size>>
    /\ UNCHANGED <<fill, config, call>>

\* the Initializing arm of initialize_color, were it taken in every state
InitializeColor_any_state ==
    /\ phase \in {"Uninitialized", "Initializing", "Running"}
    /\ \E entry \in UserEntries :
         LET r == continue_build(builder, entry, color_map)
         IN  /\ builder' = r.b
             /\ color_map' = r.cm
             /\ state' = r.result
             /\ prompted' = Announce(r.result)
             /\ IF r.result.tag = "Complete"
                THEN Running(r.result.rows,
                             [color_map |-> r.cm, progress |-> config.progress,
                              hex_size |-> hex_size])
                ELSE app' = app /\ phase' = phase /\ config' = config
    /\ UNCHANGED <<input, fill, call, hex_size>>

\* the callback initialize_color of the web front end, with the entry
\* ColorPrompt emits (a name and a non-empty abbreviation, as typed):
\* continue_build in the state Initializing, nothing in the other states.
\* The cursor of the configuration in memory is the one load_file loaded
InitializeColor ==
    \/ /\ phase = "Initializing"
       /\ \E entry \in UserEntries :
            LET r == continue_build(builder, entry, color_map)
            IN  /\ builder' = r.b
                /\ color_map' = r.cm
                /\ state' = r.result
                /\ prompted' = Announce(r.result)
                /\ IF r.result.tag = "Complete"
                   THEN Running(r.result.rows,
                                [color_map |-> r.cm, progress |-> config.progress,
                                 hex_size |-> hex_size])
                   ELSE app' = app /\ phase' = phase /\ config' = config
       /\ UNCHANGED <<input, fill, call, hex_size>>
    \/ /\ phase \in {"Uninitialized", "Running"}
       /\ UNCHANGED vars

\* the callback step_app of the web front end.  In the state Running:
\* app.tick(); config.progress = app.progress.clone(); config.save(), which
\* writes the whole configuration and panics when the storage refuses;
\* state.set(get_view(app_state)).  Nothing in the other states
StepApp ==
    \/ /\ phase = "Running"
       /\ app' = tick(app)
       /\ \E saved \in BOOLEAN :
            /\ config' = IF tick_ok(app) /\ saved
                         THEN [color_map |-> color_map, progress |-> app'.progress,
                               hex_size |-> hex_size]
                         ELSE config
            /\ phase' = IF tick_ok(app) /\ saved /\ get_view_ok(app', color_map)
                        THEN phase ELSE "panicked"
       /\ UNCHANGED <<input, color_map, builder, state, prompted, fill, call,
                      hex_size>>
    \/ /\ phase \in {"Uninitialized", "Initializing"}
       /\ UNCHANGED vars

\* the hex size is taken at most this far from HexSizeDefault
MaxHexSteps == 1
\* the hex sizes within that distance
HexSizes ==
    { v \in 0..(HexSizeDefault + MaxHexSteps) : v + MaxHexSteps >= HexSizeDefault }

\* the callback change_hex_size of the web front end.  In the state Running:
\* config.hex_size += 1 or -= 1 on a u32, then state.set(get_view(app_state));
\* the configuration is not saved.  Down at 0 panics in a build with overflow
\* checks and wraps to u32::MAX in one without; u32::MAX = 2^32 - 1 is written
\* -1, the integer of 32 bits congruent to it modulo 2^32.  Nothing in the
\* other states
ChangeHexSize ==
    \/ /\ phase = "Running"
       /\ \E dir \in {"Up", "Down"}, overflow_checks \in BOOLEAN :
            LET next == IF dir = "Up" THEN hex_size + 1 ELSE hex_size - 1
            IN  /\ next < 0 \/ next \in HexSizes
                /\ IF next < 0 /\ overflow_checks
                   THEN hex_size' = hex_size /\ phase' = "panicked"
                   ELSE /\ hex_size' = next
                        /\ phase' = IF get_view_ok(app, color_map)
                                    THEN phase ELSE "panicked"
       /\ UNCHANGED <<input, color_map, builder, state, prompted, fill, app,
                      config, call>>
    \/ /\ phase \in {"Uninitialized", "Initializing"}
       /\ UNCHANGED vars

-----------------------------------------------------------------------------
(* The registry used on its own *)

\* color_map.add_entry(color, entry), any colour and any entry
AddEntry ==
    /\ phase = "registry"
    /\ \E color \in Colors, entry \in UserEntries \cup {SavedEntry} :
         color_map' = add_entry(color_map, color, entry)
    /\ UNCHANGED <<input, builder, state, prompted, fill, app, phase, config, call,
                   hex_size>>

\* color_map.full_name(color); a panic ends the program
FullName ==
    /\ phase = "registry"
    /\ \E color \in Colors :
         LET r == full_name(color_map, color)
         IN  /\ call' = [op |-> "full_name", arg |-> color,
                         outcome |-> r.outcome, ret |-> r.ret]
             /\ phase' = IF r.outcome = "panicked" THEN "panicked" ELSE phase
    /\ UNCHANGED <<input, color_map, builder, state, prompted, fill, app, config,
                   hex_size>>

\* color_map.one_char(color)
OneChar ==
    /\ phase = "registry"
    /\ \E color \in Colors :
         LET r == one_char(color_map, color)
         IN  /\ call' = [op |-> "one_char", arg |-> color,
                         outcome |-> r.outcome, ret |-> r.ret]
             /\ phase' = IF r.outcome = "panicked" THEN "panicked" ELSE phase
    /\ UNCHANGED <<input, color_map, builder, state, prompted, fill, app, config,
                   hex_size>>

\* color.to_hex()
ToHex ==
    /\ phase = "hex"
    /\ call.outcome = "pending"
    /\ call' = [call EXCEPT !.outcome = "returned", !.ret = to_hex(call.arg)]
    /\ UNCHANGED <<input, color_map, builder, state, prompted, fill, app, phase,
                   config, hex_size>>

-----------------------------------------------------------------------------
(* A call of flood_fill on its own *)

Fill ==
    /\ phase = "fill"
    /\ ~fill.done
    /\ builder' = [builder EXCEPT !.img = flood_fill(builder.img, fill.at)]
    /\ LET r == flood_fill_visit([img |-> builder.img, visited |-> {}, calls |-> 0],
                                 fill.at)
       IN  fill' = [fill EXCEPT !.done = TRUE, !.visited = r.visited,
                                !.calls = r.calls]
    /\ UNCHANGED <<input, color_map, state, prompted, app, phase, config, call,
                   hex_size>>

-----------------------------------------------------------------------------
(* Specifications *)

NoFill == [at |-> <<0, 0>>, done |-> FALSE, visited |-> {}, calls |-> 0]
Start == [tag |-> "Start"]
NoCall == [op |-> "none", arg |-> << >>, outcome |-> "none", ret |-> << >>]

\* build_rows of the terminal front end on any image, with a registry restored
\* from a saved configuration that knows any set of colours
InitSeg ==
    /\ \E S \in PaintSets : \E f \in [S -> Colors] :
         InOrderOfAppearance(S, f) /\ input = Image(S, f)
    /\ \E K \in SUBSET Colors : color_map = SavedColorMap(K)
    /\ builder = RowBuilderNew(input)
    /\ state = Start
    /\ prompted = << >>
    /\ fill = NoFill
    /\ app = NoApp
    /\ phase = "segmenting"
    /\ config = [ConfigNew EXCEPT !.color_map = color_map]
    /\ call = NoCall
    /\ hex_size = HexSizeDefault

NextSeg == BuildRows \/ AnswerNewColor

SpecSeg == InitSeg /\ [][NextSeg]_vars

\* the row builder on its own, on any image and with a registry that knows any
\* set of colours: build, continue_build at every NewColor, and one more call
\* of build after Complete
InitRebuild ==
    /\ \E S \in PaintSets : \E f \in [S -> Colors] :
         InOrderOfAppearance(S, f) /\ input = Image(S, f)
    /\ \E K \in SUBSET Colors : color_map = SavedColorMap(K)
    /\ builder = RowBuilderNew(input)
    /\ state = Start
    /\ prompted = << >>
    /\ fill = NoFill
    /\ app = NoApp
    /\ phase = "building"
    /\ config = [ConfigNew EXCEPT !.color_map = color_map]
    /\ call = NoCall
    /\ hex_size = HexSizeDefault

NextRebuild == Build \/ ContinueBuild \/ BuildAgain

SpecRebuild == InitRebuild /\ [][NextRebuild]_vars

\* flood_fill on any image from any pixel
InitFill ==
    /\ \E S \in PaintSets : \E f \in [S -> Colors] :
         InOrderOfAppearance(S, f) /\ input = Image(S, f)
    /\ color_map = ColorMapNew
    /\ builder = RowBuilderNew(input)
    /\ state = Start
    /\ prompted = << >>
    /\ \E p \in Pixels : fill = [NoFill EXCEPT !.at = p]
    /\ app = NoApp
    /\ phase = "fill"
    /\ config = ConfigNew
    /\ call = NoCall
    /\ hex_size = HexSizeDefault

NextFill == Fill

SpecFill == InitFill /\ [][NextFill]_vars

\* the grids the walker is given: rows of 1..MaxLen cells, numbered cell by cell
\* out of a palette of m colours
CellColor(r, c, m) == 1 + ((r * MaxLen + c) % m)
Shapes == UNION { [1..n -> 1..MaxLen] : n \in 1..MaxRows }
Palettes == {2, MaxRows * MaxLen}
Grids ==
    { [r \in 1..Len(sh) |-> [c \in 1..sh[r] |-> CellColor(r - 1, c - 1, m)]] :
        sh \in Shapes, m \in Palettes }

\* the walker constructed on any grid at any cursor a saved configuration may
\* hold, then driven by tick and reset
InitWalk ==
    /\ input = [p \in Pixels |-> SEPARATOR_COLOR]
    /\ color_map = ColorMapNew
    /\ builder = RowBuilderNew(input)
    /\ \E g \in Grids : state = Complete(g)
    /\ prompted = << >>
    /\ fill = NoFill
    /\ app = NoApp
    /\ phase = "ready"
    /\ \E progress \in Cursors : config = [ConfigNew EXCEPT !.progress = progress]
    /\ call = NoCall
    /\ hex_size = HexSizeDefault

NextWalk == New \/ Tick \/ Reset

SpecWalk == InitWalk /\ [][NextWalk]_vars

\* the walker constructed on any grid at the start cursor, Progress::new()
InitFresh ==
    /\ input = [p \in Pixels |-> SEPARATOR_COLOR]
    /\ color_map = ColorMapNew
    /\ builder = RowBuilderNew(input)
    /\ \E g \in Grids : state = Complete(g)
    /\ prompted = << >>
    /\ fill = NoFill
    /\ app = NoApp
    /\ phase = "ready"
    /\ config = ConfigNew
    /\ call = NoCall
    /\ hex_size = HexSizeDefault

NextFresh == New \/ Tick \/ Reset

SpecFresh == InitFresh /\ [][NextFresh]_vars

\* the same walker advanced by a caller that keeps to the contract of tick
NextResume == New \/ Step

SpecResume == InitFresh /\ [][NextResume]_vars

\* the same walker advanced by such a caller and reset at any time
NextGuarded == New \/ Step \/ Reset

SpecGuarded == InitFresh /\ [][NextGuarded]_vars

\* is_done on any App value (the fields of App are public): any grid, the empty
\* one included, and any cursor
InitDone ==
    /\ input = [p \in Pixels |-> SEPARATOR_COLOR]
    /\ color_map = ColorMapNew
    /\ builder = RowBuilderNew(input)
    /\ state = Start
    /\ prompted = << >>
    /\ fill = NoFill
    /\ \E g \in Grids \cup {<< >>}, progress \in Cursors :
         app = [NoApp EXCEPT !.rows = g, !.progress = progress]
    /\ phase = "asked"
    /\ config = ConfigNew
    /\ call = NoCall
    /\ hex_size = HexSizeDefault

NextDone == IsDone

SpecDone == InitDone /\ [][NextDone]_vars

\* a walker constructed on any grid at any persisted cursor App::new accepts,
\* in a build with or without overflow checks, then either driven by tick and
\* reset or asked is_done
InitFrame ==
    /\ input = [p \in Pixels |-> SEPARATOR_COLOR]
    /\ color_map = ColorMapNew
    /\ builder = RowBuilderNew(input)
    /\ prompted = << >>
    /\ fill = NoFill
    /\ \E g \in Grids, progress \in Cursors :
         /\ \E overflow_checks \in BOOLEAN : new_ok(g, progress, overflow_checks)
         /\ state = Complete(g)
         /\ config = [ConfigNew EXCEPT !.progress = progress]
         /\ app = new(g, progress)
    /\ phase \in {"running", "asked"}
    /\ call = NoCall
    /\ hex_size = HexSizeDefault

NextFrame == Tick \/ Reset \/ IsDone

SpecFrame == InitFrame /\ [][NextFrame]_vars

\* a new registry, filled by add_entry and asked for labels
InitRegistry ==
    /\ input = [p \in Pixels |-> SEPARATOR_COLOR]
    /\ color_map = ColorMapNew
    /\ builder = RowBuilderNew(input)
    /\ state = Start
    /\ prompted = << >>
    /\ fill = NoFill
    /\ app = NoApp
    /\ phase = "registry"
    /\ config = ConfigNew
    /\ call = NoCall
    /\ hex_size = HexSizeDefault

NextRegistry == AddEntry \/ FullName \/ OneChar

SpecRegistry == InitRegistry /\ [][NextRegistry]_vars

\* either front end, started on a pattern opened for the first time (a new
\* registry, the start cursor): main of the terminal front end about to call
\* build_rows, or the web front end before a file is dropped
InitFront ==
    /\ input \in FrontImages
    /\ color_map = ColorMapNew
    /\ builder = RowBuilderNew(input)
    /\ state = Start
    /\ prompted = << >>
    /\ fill = NoFill
    /\ app = NoApp
    /\ phase \in {"segmenting", "Uninitialized"}
    /\ config = ConfigNew
    /\ call = NoCall
    /\ hex_size = HexSizeDefault

NextFront ==
    \/ BuildRows \/ AnswerNewColor \/ RunApp
    \/ Draw \/ Space \/ KeyR \/ KeyP \/ Quit \/ IoError
    \/ LoadFile \/ InitializeColor \/ StepApp \/ ChangeHexSize

SpecFront == InitFront /\ [][NextFront]_vars

\* the values the two other channels take while one channel runs over all of u8
ChannelSamples == {0, 16, 255}

\* to_hex on a colour: one channel any u8, the two others among the samples
InitHex ==
    /\ input = [p \in Pixels |-> SEPARATOR_COLOR]
    /\ color_map = ColorMapNew
    /\ builder = RowBuilderNew(input)
    /\ state = Start
    /\ prompted = << >>
    /\ fill = NoFill
    /\ app = NoApp
    /\ phase = "hex"
    /\ config = ConfigNew
    /\ \E k \in 1..3, v \in 0..255, s1 \in ChannelSamples, s2 \in ChannelSamples :
         call = [op |-> "to_hex",
                 arg |-> [i \in 1..3 |-> IF i = k THEN v
                                         ELSE IF i = 1 + (k % 3) THEN s1 ELSE s2],
                 outcome |-> "pending",
                 ret |-> << >>]
    /\ hex_size = HexSizeDefault

NextHex == ToHex

SpecHex == InitHex /\ [][NextHex]_vars

-----------------------------------------------------------------------------
(* Vocabulary of the properties: regions of an image, raster order *)

Painted(img) == { p \in Pixels : img[p] # SEPARATOR_COLOR }

Adjacent(p, q) ==
    \/ p[2] = q[2] /\ (p[1] = q[1] + 1 \/ q[1] = p[1] + 1)
    \/ p[1] = q[1] /\ (p[2] = q[2] + 1 \/ q[2] = p[2] + 1)

\* the painted pixels 4-connected to S, through pixels of one colour when same
RECURSIVE Connected(_, _, _)
Connected(img, S, same) ==
    LET T == S \cup { q \in Painted(img) :
                        \E p \in S : Adjacent(p, q) /\ (same => img[q] = img[p]) }
    IN  IF T = S THEN S ELSE Connected(img, T, same)

\* the 4-connected region of pixels of p's exact colour
SameColorRegion(img, p) == Connected(img, {p}, TRUE)
\* the 4-connected set of painted pixels around p, whatever their colours
Blob(img, p) == Connected(img, {p}, FALSE)

\* the first pixel of S in raster order
First(S) == CHOOSE p \in S : \A q \in S : q = p \/ Before(p, q)

RegionFirsts(img) == { First(SameColorRegion(img, p)) : p \in Painted(img) }
BlobFirsts(img) == { First(Blob(img, p)) : p \in Painted(img) }

\* the colours of the pixels of F on scan line y, from column x on, by increasing x
RECURSIVE LineFrom(_, _, _, _)
LineFrom(img, F, y, x) ==
    IF x >= Width THEN << >>
    ELSE (IF <<x, y>> \in F THEN <<img[<<x, y>>]>> ELSE << >>)
         \o LineFrom(img, F, y, x + 1)

\* one row per scan line holding a pixel of F, by increasing y
RECURSIVE GridFrom(_, _, _)
GridFrom(img, F, y) ==
    IF y >= Height THEN << >>
    ELSE LET l == LineFrom(img, F, y, 0)
         IN  (IF l = << >> THEN << >> ELSE <<l>>) \o GridFrom(img, F, y + 1)

RECURSIVE Flatten(_)
Flatten(rows) == IF rows = << >> THEN << >> ELSE Head(rows) \o Flatten(Tail(rows))

Range(s) == { s[i] : i \in DOMAIN s }

\* both maps of the registry hold a label for the colour
Registered(c) ==
    c \in DOMAIN color_map.full_names /\ c \in DOMAIN color_map.short_char

\* every entry appended so far, finished rows first
Entries == Flatten(builder.rows) \o builder.current_row

\* a registry that knows every colour of the image
AllKnown(img) == SavedColorMap({ img[p] : p \in Painted(img) })

-----------------------------------------------------------------------------
(* Properties of segmentation *)

\* C1: the grid returned at Complete, after any number of suspensions, is the
\* grid a single uninterrupted build of the same image returns when all of its
\* colours are registered beforehand.
C1_SegmentationDeterminism ==
    state.tag = "Complete" =>
        state.rows = build(RowBuilderNew(input), AllKnown(input)).result.rows

\* a run that was suspended twice and returned a grid of two rows
C1_Witness ==
    /\ phase = "segmenting"
    /\ state.tag = "Complete"
    /\ Len(prompted) = 2
    /\ Len(state.rows) = 2

\* C2 as claimed: at Complete every painted pixel is consumed and the grid has
\* one entry for each 4-connected same-colour region of the image.
C2_OneEntryPerRegion ==
    state.tag = "Complete" =>
        /\ Painted(builder.img) = {}
        /\ Len(Flatten(state.rows)) =
             Cardinality({ SameColorRegion(input, p) : p \in Painted(input) })

\* C3 as claimed: flood_fill from a painted pixel repaints the same-colour
\* region of that pixel and leaves every other pixel as it was.
C3_FillsExactRegion ==
    (phase = "fill" /\ fill.done /\ input[fill.at] # SEPARATOR_COLOR) =>
        \A p \in Pixels :
            builder.img[p] = IF p \in SameColorRegion(input, fill.at)
                             THEN SEPARATOR_COLOR ELSE input[p]

\* C4: at NewColor(c), c is neither the separator nor registered, the resume
\* cursor addresses a pixel of colour c, no entry was appended for it and its
\* region is unpainted in the buffer.
C4_NewColorLeavesPixel ==
    state.tag = "NewColor" =>
        LET c == state.color
            p == <<builder.x, builder.y>>
        IN  /\ c # SEPARATOR_COLOR
            /\ ~Registered(c)
            /\ builder.img[p] = c
            /\ input[p] = c
            /\ c \notin Range(Entries)
            /\ \A q \in SameColorRegion(input, p) : builder.img[q] = input[q]

\* a second suspension, reached with an entry in the in-progress row
C4_Witness ==
    /\ state.tag = "NewColor"
    /\ Len(prompted) = 2
    /\ builder.current_row # << >>
    /\ builder.x > 0

\* C5: the step answering NewColor(c) with continue_build(entry), whether the
\* loop goes on or the announcement of the next colour panics, registers c,
\* and only c, with the entry given, and resumes at the remembered pixel: the
\* entries so far are kept, the next entry is c, that pixel is consumed, and
\* the scan does not go back.  A step from NewColor that stays in the loop is
\* such a step.
C5_ContinueBuildResumes ==
    [][ (state.tag = "NewColor" /\ (phase' = "segmenting" \/ builder' # builder)) =>
          LET c == state.color
              p == <<builder.x, builder.y>>
              before == Entries
              after == Entries'
          IN  /\ \E e \in UserEntries :
                   /\ color_map'.full_names = Put(color_map.full_names, c, e.full_name)
                   /\ color_map'.short_char = Put(color_map.short_char, c, e.one_char)
              /\ DOMAIN color_map'.full_names = (DOMAIN color_map.full_names) \cup {c}
              /\ \A k \in DOMAIN color_map.full_names :
                   /\ color_map'.full_names[k] = color_map.full_names[k]
                   /\ color_map'.short_char[k] = color_map.short_char[k]
              /\ Len(after) > Len(before)
              /\ SubSeq(after, 1, Len(before)) = before
              /\ after[Len(before) + 1] = c
              /\ builder'.img[p] = SEPARATOR_COLOR
              /\ builder'.y >= builder.y
              /\ state'.tag = "NewColor" => Before(p, <<builder'.x, builder'.y>>)
      ]_vars

\* the first suspension has been answered and the scan stopped again further on
C5_Witness ==
    /\ state.tag = "NewColor"
    /\ Len(prompted) = 2
    /\ Registered(prompted[1])
    /\ color_map.full_names[prompted[1]] \in { e.full_name : e \in UserEntries }
    /\ Entries # << >>

\* the scan lines of the image that hold a painted pixel
PaintedLines(img) == { y \in 0..(Height - 1) : \E p \in Painted(img) : p[2] = y }

\* C6: no finished row is ever empty, the grid returned at Complete has no
\* empty row, and it has no more rows than scan lines that hold a cell.
C6_RowsNonEmpty ==
    /\ \A i \in DOMAIN builder.rows : builder.rows[i] # << >>
    /\ state.tag = "Complete" =>
         /\ \A i \in DOMAIN state.rows : state.rows[i] # << >>
         /\ Len(state.rows) <= Cardinality(PaintedLines(input))

\* a complete grid of one row from an image painted on both scan lines: the
\* second scan line contributed no cell and added no row
C6_Witness ==
    /\ state.tag = "Complete"
    /\ Len(state.rows) = 1
    /\ Cardinality(PaintedLines(input)) = 2

\* C7: every colour in a finished row, in the in-progress row or in the grid
\* returned at Complete is registered in the registry.
C7_EntriesRegistered ==
    /\ \A c \in Range(Entries) : Registered(c)
    /\ state.tag = "Complete" => \A c \in Range(Flatten(state.rows)) : Registered(c)

\* a complete grid of two colours, one of them registered during the run
C7_Witness ==
    /\ state.tag = "Complete"
    /\ Cardinality(Range(Flatten(state.rows))) = 2
    /\ prompted # << >>

\* C8: the separator colour is never an entry of a row or of the returned grid,
\* and is never reported by NewColor.
C8_SeparatorExcluded ==
    /\ SEPARATOR_COLOR \notin Range(Entries)
    /\ state.tag = "Complete" => SEPARATOR_COLOR \notin Range(Flatten(state.rows))
    /\ state.tag = "NewColor" => state.color # SEPARATOR_COLOR

\* a suspension reached after separator pixels were skipped on its scan line
C8_Witness ==
    /\ state.tag = "NewColor"
    /\ builder.x = 2
    /\ input[<<0, builder.y>>] = SEPARATOR_COLOR
    /\ input[<<1, builder.y>>] = SEPARATOR_COLOR

\* C9: the grid returned at Complete lists the first pixels (topmost, then
\* leftmost) of the consumed regions, one row per scan line in increasing y and
\* by increasing x within a row; each of them is the first pixel of its
\* same-colour region.
C9_GridOrdering ==
    state.tag = "Complete" =>
        /\ state.rows = GridFrom(input, BlobFirsts(input), 0)
        /\ BlobFirsts(input) \subseteq RegionFirsts(input)

\* a grid of two rows, the first with two entries, built over a suspension
C9_Witness ==
    /\ state.tag = "Complete"
    /\ Len(state.rows) = 2
    /\ Len(state.rows[1]) = 2
    /\ prompted # << >>

\* the colours of the image that the registry cm does not know
Unknown(cm) == { input[p] : p \in Painted(input) } \ DOMAIN cm.full_names
\* the colours the registry knew before the first build: it has gained the
\* colours asked for and answered, and only those
KnownAtStart(cm, asked) == DOMAIN cm.full_names \ Range(asked)

\* C34: segmentation terminates, every NewColor being answered with
\* continue_build.  On every step in which build or continue_build was called
\* (the loop goes on, or the result has changed and its announcement
\* panicked): the call returns NewColor or Complete; every answer leaves fewer
\* unregistered colours of the image, and Complete is returned when none is
\* left; a colour reported by NewColor is a colour of the image, unregistered
\* and never reported before, and it is announced unless the announcement
\* panics, so there are at most as many suspensions as colours of the image
\* unregistered at the start; successive suspension pixels strictly increase
\* in raster order.
C34_SegmentationTerminates ==
    [][ (phase' = "segmenting" \/ state' # state) =>
        /\ state'.tag \in {"NewColor", "Complete"}
        /\ state.tag = "NewColor" =>
             Cardinality(Unknown(color_map')) < Cardinality(Unknown(color_map))
        /\ Unknown(color_map') = {} => state'.tag = "Complete"
        /\ state'.tag = "NewColor" =>
             /\ phase' = "segmenting" => prompted' = Append(prompted, state'.color)
             /\ phase' # "segmenting" => (prompted' = prompted /\ phase' = "panicked")
             /\ state'.color \in Unknown(color_map')
             /\ state'.color \notin Range(prompted)
        /\ state'.tag = "Complete" => (prompted' = prompted /\ phase' = "segmenting")
        /\ KnownAtStart(color_map', prompted') = KnownAtStart(color_map, prompted)
        /\ Len(prompted') <=
             Cardinality({ input[p] : p \in Painted(input) }
                           \ KnownAtStart(color_map', prompted'))
        /\ (state.tag = "NewColor" /\ state'.tag = "NewColor") =>
             Before(<<builder.x, builder.y>>, <<builder'.x, builder'.y>>)
      ]_vars

\* a second suspension on the second scan line, for a colour other than the
\* first, which has been registered
C34_Witness ==
    /\ state.tag = "NewColor"
    /\ Len(prompted) = 2
    /\ prompted[1] # prompted[2]
    /\ prompted[1] \in DOMAIN color_map.full_names
    /\ prompted[2] \notin DOMAIN color_map.full_names
    /\ builder.y = 1
    /\ builder.rows # << >>

\* C38: segmentation consumes its pixel buffer.  When build (or continue_build)
\* returns Complete every pixel of the builder's buffer is the separator
\* colour, and a call of build after Complete returns the same grid and leaves
\* the row list, the in-progress row and the buffer as they are.
C38_BufferConsumed ==
    [][ /\ state'.tag = "Complete" =>
             \A p \in DOMAIN builder'.img : builder'.img[p] = SEPARATOR_COLOR
        /\ BuildAgain =>
             /\ state' = state
             /\ builder'.rows = builder.rows
             /\ builder'.current_row = << >>
             /\ builder'.img = builder.img
             /\ color_map' = color_map
             /\ prompted' = prompted ]_vars

\* build called again after a grid of two rows was returned over a suspension,
\* from an image of three painted pixels
C38_Witness ==
    /\ phase = "rebuilt"
    /\ state.tag = "Complete"
    /\ Len(state.rows) = 2
    /\ prompted # << >>
    /\ Cardinality(Painted(input)) = 3
    /\ Painted(builder.img) = {}

-----------------------------------------------------------------------------
(* Properties of the walker *)

\* C10: every tick strictly increases the cursor: it keeps the row and adds 1
\* to the column, or adds 1 to the row and sets the column to 0.
C10_CursorMonotonic ==
    [][ Tick =>
          \/ /\ app'.progress.row = app.progress.row
             /\ app'.progress.col = app.progress.col + 1
          \/ /\ app'.progress.row = app.progress.row + 1
             /\ app'.progress.col = 0
      ]_vars

\* a walker that ticked along its row and then changed row
C10_Witness ==
    /\ phase = "running"
    /\ app.ensure_current_on_screen
    /\ app.progress = [row |-> 3, col |-> 2]
    /\ Len(app.lines) = 4

\* C11: resume equivalence.  At every cursor the walker reaches from the start
\* cursor by advances made while is_done() is false, a walker constructed from
\* the same grid and that cursor exists and has the same lines, current_pixel
\* and next_pixel as the advanced walker.
C11_ResumeEquivalence ==
    phase = "running" =>
        /\ new_ok(app.rows, app.progress, FALSE)
        /\ app.lines = new(app.rows, app.progress).lines
        /\ app.current_pixel = new(app.rows, app.progress).current_pixel
        /\ app.next_pixel = new(app.rows, app.progress).next_pixel

\* C12: a reset, in any state the walker can be in, leaves the cursor at the
\* fixed start position (row 2, col 1), lines equal to the lines of a walker
\* freshly constructed on the same grid at that cursor, and the grid unchanged.
C12_ResetRestoresStart ==
    [][Reset =>
         /\ app'.progress = [row |-> 2, col |-> 1]
         /\ new_ok(app.rows, [row |-> 2, col |-> 1], TRUE)
         /\ app'.lines = new(app.rows, [row |-> 2, col |-> 1]).lines
         /\ app'.rows = app.rows]_vars

\* a walker constructed at a cursor past row 3 (the cursor the configuration
\* still holds) and reset since
C12_Witness ==
    /\ phase = "running"
    /\ config.progress.row >= 3
    /\ app.progress = [row |-> 2, col |-> 1]
    /\ Len(app.lines) = 3
    /\ Len(app.rows) > 3

\* C13: reset idempotence.  After a reset, in any state the walker can be in
\* (also when the cursor has passed row 3), lines, current_pixel and next_pixel
\* are those of a walker freshly constructed on the same grid at the fixed
\* start cursor.
C13_ResetIdempotence ==
    [][Reset =>
         /\ app'.lines = new(app.rows, [row |-> 2, col |-> 1]).lines
         /\ app'.current_pixel = new(app.rows, [row |-> 2, col |-> 1]).current_pixel
         /\ app'.next_pixel = new(app.rows, [row |-> 2, col |-> 1]).next_pixel]_vars

\* every slot of a preview is None
AllNone(p) == IF p.tag = "Pixel" THEN p.v = None ELSE p.v = <<None, None, None>>

\* grid[r][c], None when either index is out of range
Cell(rows, r, c) ==
    IF r < Len(rows) /\ c < Len(rows[r + 1]) THEN Some(rows[r + 1][c + 1]) ELSE None

\* C14: preview edge behaviour.  When the cursor is at the last cell of the last
\* grid row, the first state of the walk in which is_done() is true, next_pixel
\* is None (or a triple of None).
C14_NextNoneAtEnd ==
    ( /\ phase = "running"
      /\ is_done(app)
      /\ app.progress.row = Len(app.rows) - 1
      /\ app.progress.col = Len(app.rows[Len(app.rows)]) - 1 )
    => AllNone(app.next_pixel)

\* C15: is_done is a saturating boundary check.  On an empty grid the call
\* returns true (grid.len() - 1 neither underflows nor fails); on a non-empty
\* grid it returns true iff row >= grid.len() - 1 and col >= len(last row) - 1.
C15_IsDoneSaturating ==
    phase # "asked" =>
        IF app.rows = << >>
        THEN phase = "done"
        ELSE /\ phase \in {"done", "not_done"}
             /\ phase = "done" <=>
                  /\ app.progress.row >= Len(app.rows) - 1
                  /\ app.progress.col >= Len(app.rows[Len(app.rows)]) - 1

\* C16: the row-change rule of tick.  With (row, col) the cursor before the
\* call, tick changes row iff col + 1 >= the greatest length of grid rows 0, 1, 2
\* (row < 3) or col + 1 >= len(grid[row]) (row >= 3).  Then the cursor becomes
\* (row + 1, 0), lines has exactly one line more and current_pixel is the
\* single-cell preview of grid[row + 1][0]; otherwise the cursor becomes
\* (row, col + 1) and lines has as many lines as before.
C16_RowChangeRule ==
    [][Tick =>
         LET row == app.progress.row
             col == app.progress.col
             limit == IF row < 3
                      THEN Max(Max(Len(app.rows[1]), Len(app.rows[2])),
                               Len(app.rows[3]))
                      ELSE Len(app.rows[row + 1])
         IN  IF col + 1 >= limit
             THEN /\ app'.progress = [row |-> row + 1, col |-> 0]
                  /\ Len(app'.lines) = Len(app.lines) + 1
                  /\ app'.current_pixel = Pixel(Cell(app.rows, row + 1, 0))
             ELSE /\ app'.progress = [row |-> row, col |-> col + 1]
                  /\ Len(app'.lines) = Len(app.lines)]_vars

\* a walker constructed on row 2 whose last tick changed row from 2 to 3, on a
\* grid of four rows
C16_Witness ==
    /\ phase = "running"
    /\ app.ensure_current_on_screen
    /\ app.progress = [row |-> 3, col |-> 0]
    /\ config.progress.row = 2
    /\ Len(app.lines) = 4
    /\ app.current_pixel = Pixel(Some(app.rows[4][1]))

\* C17: promotion.  After a tick that does not change the row, current_pixel is
\* the value next_pixel had immediately before the tick.
C17_Promotion ==
    [][Tick /\ app'.progress.row = app.progress.row =>
         app'.current_pixel = app.next_pixel]_vars

\* a walker constructed at (3, 1) whose tick stayed on row 3 and promoted a
\* cell of that row
C17_Witness ==
    /\ phase = "running"
    /\ app.ensure_current_on_screen
    /\ app.progress = [row |-> 3, col |-> 2]
    /\ config.progress = [row |-> 3, col |-> 1]
    /\ Len(app.rows) >= 4
    /\ Len(app.rows[4]) >= 2
    /\ app.current_pixel = Pixel(Some(app.rows[4][2]))
    /\ app.next_pixel # app.current_pixel

\* C18: after construction and after every tick, next_pixel is the construction
\* rule at the new cursor: Pixel(grid[row][col]) when row >= 3 and
\* Tri(grid[0][col+1], grid[1][col], grid[2][col+1]) when row < 3, None standing
\* for every index out of range.
C18_NextPixelRule ==
    [][(New \/ Tick) /\ phase' = "running" =>
         LET row == app'.progress.row
             col == app'.progress.col
         IN  app'.next_pixel =
               IF row >= 3
               THEN Pixel(Cell(app'.rows, row, col))
               ELSE Tri(Cell(app'.rows, 0, col + 1), Cell(app'.rows, 1, col),
                        Cell(app'.rows, 2, col + 1))]_vars

\* a walker ticked to (2, 2) whose next triple holds a cell of grid row 1
C18_Witness ==
    /\ phase = "running"
    /\ app.ensure_current_on_screen
    /\ app.progress = [row |-> 2, col |-> 2]
    /\ app.next_pixel.tag = "Tri"
    /\ Len(app.rows[2]) >= 3
    /\ app.next_pixel.v[2] = Some(app.rows[2][3])
    /\ app.next_pixel.v[1] = None

\* C19: lockstep growth while row < 3.  In every state reached from the start
\* cursor by construction, ticks and resets in which row < 3,
\* len(lines[0]) = min(col + 1, len(grid[0])), len(lines[1]) = min(col,
\* len(grid[1])) and len(lines[2]) = min(col + 1, len(grid[2])).
C19_LockstepGrowth ==
    phase = "running" /\ app.progress.row < 3 =>
        /\ Len(app.lines[1]) = Min(app.progress.col + 1, Len(app.rows[1]))
        /\ Len(app.lines[2]) = Min(app.progress.col, Len(app.rows[2]))
        /\ Len(app.lines[3]) = Min(app.progress.col + 1, Len(app.rows[3]))

\* a walker ticked from (2, 1) to (2, 2) on rows of three cells
C19_Witness ==
    /\ phase = "running"
    /\ app.ensure_current_on_screen
    /\ app.progress = [row |-> 2, col |-> 2]
    /\ Len(app.lines[1]) = 3
    /\ Len(app.lines[2]) = 2
    /\ Len(app.lines[3]) = 3

\* C20: constructing a walker from a cursor with col = 0 (every index but
\* col - 1 in range) succeeds, and the preview slots indexed col - 1 are None:
\* current_pixel = Pixel(None) when row >= 3, the middle slot of the current
\* triple when row < 3.
C20_ColZeroConstruction ==
    [][( /\ New
         /\ config.progress.col = 0
         /\ new_ok(state.rows, config.progress, FALSE) )
       => /\ phase' = "running"
          /\ app'.progress = config.progress
          /\ IF config.progress.row >= 3
             THEN app'.current_pixel = Pixel(None)
             ELSE app'.current_pixel.v[2] = None]_vars

\* the cursor lies in the grid: its row exists and its col is at most the
\* length of the row it walks (of the longest of rows 0, 1, 2 while row < 3)
CursorInGrid(rows, p) ==
    /\ p.row < Len(rows)
    /\ p.col <= (IF p.row < 3
                 THEN Max(Max(Len(rows[1]), Len(rows[2])), Len(rows[3]))
                 ELSE Len(rows[p.row + 1]))

\* C21: construction never yields a walker whose cursor is outside the grid: a
\* cursor whose row is not a grid row or whose col exceeds the length of its
\* row is clamped to a valid position or rejected.
C21_CursorValidated ==
    [][New /\ phase' = "running" => CursorInGrid(app'.rows, app'.progress)]_vars

\* C22: a tick that moves the cursor to the row index just past the grid
\* completes and leaves current_pixel = Pixel(None).
C22_TerminalTick ==
    [][Tick /\ app'.progress.row = Len(app.rows) =>
         /\ phase' = "running"
         /\ app'.current_pixel = Pixel(None)]_vars

\* C23: in every state of a walker built at the start cursor and driven by
\* tick and reset, current_pixel and next_pixel are triples iff row < 3 and
\* single-cell previews iff row >= 3.
C23_PreviewVariant ==
    phase = "running" =>
        /\ app.current_pixel.tag = (IF app.progress.row < 3 THEN "Tri" ELSE "Pixel")
        /\ app.next_pixel.tag = (IF app.progress.row < 3 THEN "Tri" ELSE "Pixel")

\* C27: ensure_current_on_screen is false right after construction and true
\* right after every tick; reset does not change it (is_done takes &self and
\* assigns nothing).
C27_EnsureFlag ==
    [][ /\ New /\ phase' = "running" => ~app'.ensure_current_on_screen
        /\ Tick => app'.ensure_current_on_screen
        /\ Reset =>
             app'.ensure_current_on_screen = app.ensure_current_on_screen ]_vars

\* a walker constructed at (2, 2), ticked and then reset: the flag is still set
C27_Witness ==
    /\ phase = "running"
    /\ app.ensure_current_on_screen
    /\ app.progress = [row |-> 2, col |-> 1]
    /\ config.progress = [row |-> 2, col |-> 2]
    /\ Len(app.rows) = 3

\* C29 as claimed: the callers of the walker call tick only when is_done() is
\* false: the space key and the key 'P' of the terminal front end, and the
\* callback step_app of the web front end in the state Running.
C29_TickOnlyBeforeDone ==
    [][ /\ (Space /\ app' # app) => ~is_done(app)
        /\ KeyP => ~is_done(app)
        /\ (StepApp /\ phase = "Running") => ~is_done(app) ]_vars

\* C26: labels are write-once during segmentation.  No step of the loop that
\* answers each NewColor with continue_build changes or removes the full name
\* or the abbreviation of a registered colour, and the colour a step registers
\* (a step from NewColor that stays in the loop or changes the builder) was not
\* registered before it.
C26_WriteOnce ==
    [][ /\ \A c \in DOMAIN color_map.full_names :
             /\ c \in DOMAIN color_map'.full_names
             /\ color_map'.full_names[c] = color_map.full_names[c]
        /\ \A c \in DOMAIN color_map.short_char :
             /\ c \in DOMAIN color_map'.short_char
             /\ color_map'.short_char[c] = color_map.short_char[c]
        /\ (state.tag = "NewColor" /\ (phase' = "segmenting" \/ builder' # builder)) =>
             /\ state.color \notin DOMAIN color_map.full_names
             /\ state.color \notin DOMAIN color_map.short_char
             /\ DOMAIN color_map'.full_names =
                  DOMAIN color_map.full_names \cup {state.color} ]_vars

\* a grid of two colours, one labelled by the saved configuration and kept, the
\* other labelled by the user's answer
C26_Witness ==
    /\ state.tag = "Complete"
    /\ Len(prompted) = 1
    /\ Range(Flatten(state.rows)) = {1, 2}
    /\ DOMAIN color_map.full_names = {1, 2}
    /\ \E c \in {1, 2} :
         /\ prompted = <<c>>
         /\ color_map.full_names[c] = Blue.full_name
         /\ color_map.full_names[3 - c] = SavedEntry.full_name
         /\ color_map.short_char[3 - c] = SavedEntry.one_char

\* C32: guarded advance is safe.  On every grid of at least 3 non-empty rows, a
\* walker constructed at the start cursor (2, 1) and driven by resets and by
\* advances made only when is_done() is false never indexes the grid or lines
\* out of range, and its cursor row stays below the number of grid rows.
C32_GuardedAdvanceSafe ==
    [][ /\ (New /\ Len(state.rows) >= 3) => phase' = "running"
        /\ Step =>
             /\ tick_ok(app)
             /\ Len(app.lines) >= (IF app'.progress.row < 3 THEN 3 ELSE 1)
             /\ phase' = "running"
        /\ Reset => initialize_lines_ok(app.rows, ProgressNew)
        /\ phase' = "running" =>
             /\ app'.progress.row < Len(app'.rows)
             /\ Len(app'.lines) <= Len(app'.rows)
             /\ \A i \in DOMAIN app'.lines :
                  Len(app'.lines[i]) <= Len(app'.rows[i]) ]_vars

\* a walker advanced to the last cell of a grid of four rows, where is_done()
\* holds and no further advance is made
C32_Witness ==
    /\ phase = "running"
    /\ app.ensure_current_on_screen
    /\ Len(app.rows) = 4
    /\ Len(app.rows[4]) = 3
    /\ app.progress = [row |-> 3, col |-> 2]
    /\ is_done(app)
    /\ ~ENABLED Step

\* C33: the walk terminates.  On every grid of at least 3 non-empty rows, the
\* walker started at the start cursor and advanced whenever is_done() is false
\* is, in every state, at most as many advances from the start as the grid has
\* cells; after that many advances is_done() is true; and once is_done() is
\* true no further advance is made, so it stays true.
C33_WalkTerminates ==
    phase = "running" =>
        LET cells == Len(Flatten(app.rows))
            start == new(app.rows, ProgressNew)
        IN  /\ \E k \in 0..cells : app = steps(start, k)
            /\ is_done(steps(start, cells))
            /\ is_done(app) => ~ENABLED Step

\* a walk of four advances, the longest on the grids of four rows of three
\* cells, arrived where is_done() holds
C33_Witness ==
    /\ phase = "running"
    /\ Len(app.rows) = 4
    /\ is_done(app)
    /\ app = steps(new(app.rows, ProgressNew), 4)
    /\ ~is_done(steps(new(app.rows, ProgressNew), 3))

\* s is a prefix of t
IsPrefix(s, t) == Len(s) <= Len(t) /\ s = SubSeq(t, 1, Len(s))

\* C35: lines is always a prefix of the grid.  In every state reached from the
\* start cursor by resets and by advances made only when is_done() is false,
\* len(lines) <= len(grid) and every lines[i] is a prefix of grid row i.
C35_LinesPrefix ==
    phase = "running" =>
        /\ Len(app.lines) <= Len(app.rows)
        /\ \A i \in DOMAIN app.lines : IsPrefix(app.lines[i], app.rows[i])

\* a walker reset after it had reached row 3 (the previews are still single
\* cells): three lines again, the first two proper prefixes of their grid rows
C35_Witness ==
    /\ phase = "running"
    /\ Len(app.rows) = 4
    /\ app.progress = [row |-> 2, col |-> 1]
    /\ app.current_pixel.tag = "Pixel"
    /\ Len(app.lines) = 3
    /\ Len(app.lines[1]) = 2
    /\ Len(app.lines[2]) = 1
    /\ Len(app.rows[1]) = 3
    /\ Len(app.rows[2]) = 3

\* C36 as claimed: every cell is revealed by the end of the walk.  On a grid of
\* at least 4 non-empty rows walked from the start cursor by advances made while
\* is_done() is false, lines equals the whole grid in the state where is_done()
\* first holds (no advance is made after it).
C36_AllRevealed ==
    (phase = "running" /\ Len(app.rows) >= 4 /\ is_done(app)) =>
        app.lines = app.rows

\* C37 as claimed: next follows current.  In every state reached by an advance
\* with cursor row >= 3, current_pixel is the cell at (row, col - 1), None when
\* there is none, and next_pixel the cell right after it, at (row, col); so
\* right after a change of row the two previews do not show the same grid cell.
C37_NextFollowsCurrent ==
    [][(Step /\ phase' = "running" /\ app'.progress.row >= 3) =>
         LET row == app'.progress.row
             col == app'.progress.col
         IN  /\ app'.current_pixel =
                  Pixel(IF col = 0 THEN None ELSE Cell(app'.rows, row, col - 1))
             /\ app'.next_pixel = Pixel(Cell(app'.rows, row, col))]_vars

\* C39: frame of the walker operations.  tick, reset and is_done never modify
\* the grid; is_done modifies nothing at all (how the call ended is all that
\* is recorded); the cursor is changed by tick and reset only.
C39_Frame ==
    [][ /\ (Tick \/ Reset \/ IsDone) => app'.rows = app.rows
        /\ IsDone =>
             /\ app' = app
             /\ UNCHANGED <<input, color_map, builder, state, prompted, fill,
                            config, call, hex_size>>
        /\ app'.progress # app.progress => (Tick \/ Reset) /\ ~IsDone ]_vars

\* a walker constructed on row 3, ticked and reset since, its grid still the
\* grid it was constructed on
C39_Witness ==
    /\ phase = "running"
    /\ app.ensure_current_on_screen
    /\ config.progress.row = 3
    /\ app.progress = [row |-> 2, col |-> 1]
    /\ app.rows = state.rows
    /\ Len(app.rows) = 4
    /\ Len(app.lines) = 3

-----------------------------------------------------------------------------
(* Properties of flood_fill *)

\* C31: flood_fill never reads or writes a coordinate outside the image: from
\* every start pixel, regions touching an edge included, every coordinate it
\* indexes satisfies 0 <= x < width and 0 <= y < height; and it terminates,
\* after at most one call for the start pixel and four for every painted pixel.
C31_FillInBounds ==
    (phase = "fill" /\ fill.done) =>
        /\ fill.at \in fill.visited
        /\ \A p \in fill.visited :
             /\ 0 <= p[1] /\ p[1] < width(input)
             /\ 0 <= p[2] /\ p[2] < height(input)
        /\ fill.calls >= 1
        /\ fill.calls <= 1 + 4 * Cardinality(Painted(input))
        /\ flood_fill_visit([img |-> input, visited |-> {}, calls |-> 0],
                            fill.at).img = builder.img

\* a fill of the whole top scan line: the region touches the left, the top and
\* the right edge, and the scan line below is read up to the bottom edge
C31_Witness ==
    /\ phase = "fill"
    /\ fill.done
    /\ \A x \in 0..(Width - 1) : input[<<x, 0>>] = 1 /\ builder.img[<<x, 0>>] = 0
    /\ <<0, Height - 1>> \in fill.visited
    /\ <<Width - 1, Height - 1>> \in fill.visited

-----------------------------------------------------------------------------
(* Properties of the front ends *)

\* C28: ordering of phases.  In both front ends a walker is constructed only
\* on the grid of a Complete result, when every colour the segmentation of
\* that image has reported by NewColor has been registered by continue_build
\* and every colour of the grid is registered; the grid of a walker is replaced
\* only when another image is loaded; the registry changes only during the
\* segmentation (web: in the state Initializing) and the walker only in the
\* loop of run_app (web: in the state Running); outside those states the web
\* callbacks initialize_color and step_app change nothing.
C28_PhaseOrdering ==
    [][ /\ (app' # NoApp /\ (app = NoApp \/ app'.rows # app.rows)) =>
             /\ phase \in {"segmenting", "Uninitialized", "Initializing", "Running"}
             /\ phase' \in {"run_app", "Running"}
             /\ state'.tag = "Complete"
             /\ app'.rows = state'.rows
             /\ \A c \in Range(prompted') \cup Range(Flatten(state'.rows)) :
                  /\ c \in DOMAIN color_map'.full_names
                  /\ c \in DOMAIN color_map'.short_char
        /\ app' # app => (app = NoApp \/ phase \in {"run_app", "Running"})
        /\ (app # NoApp /\ app'.rows # app.rows) =>
             (phase = "Running" /\ input' # input)
        /\ color_map' # color_map => phase \in {"segmenting", "Initializing"}
        /\ (phase # "Initializing" /\ InitializeColor) => UNCHANGED vars
        /\ (phase # "Running" /\ StepApp) => UNCHANGED vars ]_vars

\* the web front end running on a grid of four rows after two colours were
\* asked for, its walker advanced once by step_app, which saved the cursor
C28_Witness ==
    /\ phase = "Running"
    /\ Len(prompted) = 2
    /\ state.tag = "Complete"
    /\ app.rows = state.rows
    /\ Len(app.rows) = 4
    /\ DOMAIN color_map.full_names = {1, 2}
    /\ app.progress = [row |-> 3, col |-> 0]
    /\ config.progress = app.progress

-----------------------------------------------------------------------------
(* Properties of the registry *)

\* C24 as claimed: full_name(color) and one_char(color) on a colour that is not
\* registered end with an error outcome handed to the caller, who goes on, and
\* leave the registry unchanged.
C24_LookupErrorSurfaced ==
    [][(FullName \/ OneChar) /\ ~Registered(call'.arg) =>
         /\ call'.outcome \notin {"returned", "panicked"}
         /\ phase' = phase
         /\ color_map' = color_map]_vars

\* C25: after any sequence of add_entry calls on a new registry, the colours
\* with a full name are the colours with an abbreviation, and has(color) holds
\* iff both labels of the colour are recorded.
C25_MapsInStep ==
    phase \in {"registry", "panicked"} =>
        /\ DOMAIN color_map.full_names = DOMAIN color_map.short_char
        /\ \A c \in Colors \cup {SEPARATOR_COLOR} :
             has(color_map, c) <=>
                 (c \in DOMAIN color_map.full_names /\ c \in DOMAIN color_map.short_char)

\* two colours registered, one of them relabelled since
C25_Witness ==
    /\ phase = "registry"
    /\ DOMAIN color_map.full_names = {1, 2}
    /\ color_map.full_names[1] = Blue.full_name
    /\ color_map.short_char[1] = Blue.one_char
    /\ color_map.full_names[2] = SavedEntry.full_name
    /\ call.op = "full_name"
    /\ call.arg = 1
    /\ call.ret = Red.full_name

-----------------------------------------------------------------------------
(* Properties of to_hex *)

\* the sixteen hexadecimal digits, capitals
HexDigit == <<"0", "1", "2", "3", "4", "5", "6", "7",
              "8", "9", "A", "B", "C", "D", "E", "F">>
\* the value of a hexadecimal digit
HexValue(ch) == CHOOSE n \in 0..15 : HexDigit[n + 1] = ch
\* the colour a string "#RRGGBB" reads as
FromHex(str) ==
    [i \in 1..3 |-> 16 * HexValue(str[2 * i]) + HexValue(str[2 * i + 1])]

\* C30: to_hex renders a colour (r, g, b) as '#' followed by exactly six chars,
\* each channel as two capital hexadecimal digits, high nibble then low nibble,
\* zero-padded; (255, 0, 16) gives "#FF0010"; the string reads back as the
\* colour, so distinct colours give distinct strings.
C30_ToHex ==
    (call.op = "to_hex" /\ call.outcome = "returned") =>
        /\ Len(call.ret) = 7
        /\ call.ret[1] = "#"
        /\ \A i \in 1..3 :
             /\ call.ret[2 * i] = HexDigit[(call.arg[i] \div 16) + 1]
             /\ call.ret[2 * i + 1] = HexDigit[(call.arg[i] % 16) + 1]
        /\ FromHex(call.ret) = call.arg
        /\ call.arg = <<255, 0, 16>> =>
             call.ret = <<"#", "F", "F", "0", "0", "1", "0">>

\* the example of the specification, rendered
C30_Witness ==
    /\ call.op = "to_hex"
    /\ call.outcome = "returned"
    /\ call.arg = <<255, 0, 16>>
    /\ call.ret = <<"#", "F", "F", "0", "0", "1", "0">>


====
